---- MODULE Spec2Model ----
(***************************************************************************)
(* A model of src/bot.py (YouTubeTelegramBot): the channel registry        *)
(* (channels.json), the poll-state document (videos_data.json), the /add   *)
(* and /remove commands and the reconciliation pass check_new_videos.      *)
(*                                                                         *)
(* src/bot.py holds two revisions of most methods of the class: lines      *)
(* 64-555 (revision 1: /add seeds the poll-state, the pass skips a channel *)
(* without poll-state entry) and lines 666-1102 (revision 2: /add does not *)
(* seed, the pass starts a missing entry empty).  The variable `revision`  *)
(* is fixed by Init and selects which of the two is running.               *)
(*                                                                         *)
(* Strings are tuples of one-character strings, so that the regular        *)
(* expressions and lower()/in of the code are computed, not assumed.       *)
(***************************************************************************)
EXTENDS Integers, Sequences, FiniteSets, TLC

VARIABLES
    revision,    \* 1 or 2: which revision of the methods runs
    channels,    \* channels.json: the registry, a list of registrations
    data,        \* videos_data.json: channel id -> poll-state entry
    feed,        \* the feed source: channel -> entries, newest first
    pc,          \* "idle", "pass" while check_new_videos iterates, or "add"
                 \* between the two writes of cmd_add_channel
    adding,      \* cmd_add_channel between its writes: channel_id, channel_name
    idx,         \* check_new_videos: position of the loop over channels
    saved_data,  \* check_new_videos: the local copy of the poll-state
    videos,      \* the result of the latest get_channel_videos call
    outbox,      \* the messages the latest step handed to sendMessage
    fetched,     \* history: what the latest pass fetched for each channel
    notified,    \* history: per channel, item ids that a pass has notified
    justAdded,   \* history: channels added since, with their feed untouched
    saves,       \* history: save_data calls of the latest check_new_videos
    delivered,   \* history: per channel, ids a pass found new, and ids it sent
    track,       \* which history variable this behaviour records
    given,       \* the resolver alone: the text it is applied to
    resolved,    \* the resolver alone: what it returned
    requests,    \* the resolver alone: the network requests it made
    at,          \* run_forever: where the control loop stands
    last_update_id,        \* the watermark of the command drain
    updates,     \* process_telegram_commands: the update ids still to handle
    update,      \* process_telegram_commands: the update handled last
    video_check_counter,   \* run_forever: iterations since the last pass
    telegram     \* the transport: the id of the latest update sent to the bot

\* the state of the program and of its feed source
ProgramVars == <<revision, channels, data, feed, pc, adding, idx, saved_data,
                 videos,
                 outbox, fetched, notified, justAdded, saves, delivered, track>>

ResolverVars == <<given, resolved, requests>>

LoopVars == <<at, last_update_id, updates, update, video_check_counter,
             telegram>>

vars == <<ProgramVars, ResolverVars, LoopVars>>

-----------------------------------------------------------------------------
(* Bounds of the model.                                                    *)

MaxItem == 3        \* item ids 1..MaxItem can appear in the feed of channel "1"
MaxUpdate == 3      \* update ids 1..MaxUpdate are sent to the bot
MaxPaged == 6       \* item ids 1..MaxPaged, when the feed outgrows a page

(* Program constants.                                                      *)

IdBodyLen == 22     \* {22} of the canonical-id regular expressions
PageSize == 5       \* feed.entries[:5]
CheckEvery1 == 12   \* revision 1: video_check_counter >= 12
CheckEvery2 == 60   \* revision 2: video_check_counter >= 60

-----------------------------------------------------------------------------
(* Strings.                                                                *)

RECURSIVE Rep(_, _)
Rep(ch, n) == IF n <= 0 THEN <<>> ELSE <<ch>> \o Rep(ch, n - 1)

\* [a-zA-Z0-9_-], restricted to the characters the model's inputs use
IdChars == {"U", "C", "x", "z", "a", "b", "A", "B", "h", "1", "2", "3", "_", "-"}

Whitespace == {" "}

Upper2Lower == [c \in {"A", "B", "U", "C"} |->
                  CASE c = "A" -> "a" [] c = "B" -> "b"
                    [] c = "U" -> "u" [] c = "C" -> "c"]

\* str.lower()
Lower(s) == [i \in 1..Len(s) |->
               IF s[i] \in DOMAIN Upper2Lower THEN Upper2Lower[s[i]] ELSE s[i]]

\* t in s
Contains(s, t) == \E p \in 0..(Len(s) - Len(t)) : SubSeq(s, p + 1, p + Len(t)) = t

\* str.strip()
RECURSIVE LStrip(_)
LStrip(s) == IF s # <<>> /\ Head(s) \in Whitespace THEN LStrip(Tail(s)) ELSE s
RECURSIVE RStrip(_)
RStrip(s) == IF s # <<>> /\ s[Len(s)] \in Whitespace
             THEN RStrip(SubSeq(s, 1, Len(s) - 1)) ELSE s
Strip(s) == RStrip(LStrip(s))

AllIdChars(s) == \A i \in 1..Len(s) : s[i] \in IdChars

Take(s, n) == SubSeq(s, 1, IF Len(s) < n THEN Len(s) ELSE n)

None == <<>>        \* Python's None (and every falsy string)

-----------------------------------------------------------------------------
(* extract_channel_id_simple                                               *)

\* re.match(r'^UC[a-zA-Z0-9_-]{22}$', s)
MatchesCanonical(s) ==
    /\ Len(s) = 2 + IdBodyLen
    /\ s[1] = "U" /\ s[2] = "C"
    /\ AllIdChars(SubSeq(s, 3, Len(s)))

ChannelUrlLiteral ==
    <<"y","o","u","t","u","b","e",".","c","o","m","/","c","h","a","n","n","e","l","/">>

ChannelPathLiteral == <<"c","h","a","n","n","e","l","/">>

\* the positions p at which  lit([UC][a-zA-Z0-9_-]{22})  matches s
GroupStarts(lit, s) ==
    {p \in 1..Len(s) :
        /\ p + Len(lit) + IdBodyLen <= Len(s)
        /\ SubSeq(s, p, p + Len(lit) - 1) = lit
        /\ s[p + Len(lit)] \in {"U", "C"}
        /\ AllIdChars(SubSeq(s, p + Len(lit) + 1, p + Len(lit) + IdBodyLen))}

Min(S) == CHOOSE m \in S : \A k \in S : m <= k

\* re.search(lit + r'([UC][a-zA-Z0-9_-]{22})', s).group(1), or None
SearchGroup(lit, s) ==
    IF GroupStarts(lit, s) = {} THEN None
    ELSE LET p == Min(GroupStarts(lit, s)) + Len(lit)
         IN  SubSeq(s, p, p + IdBodyLen)

\* the strip() of line 59 left out
extract_channel_id_unstripped(input_text) ==
    IF MatchesCanonical(input_text) THEN input_text
    ELSE SearchGroup(ChannelUrlLiteral, input_text)

extract_channel_id_simple(input_text) ==
    LET s == Strip(input_text)
    IN  IF MatchesCanonical(s) THEN s
        ELSE SearchGroup(ChannelUrlLiteral, s)

-----------------------------------------------------------------------------
(* The feed source and the channels behind it.                             *)

\* The channels that can exist are "1", "2", "3"; DOMAIN feed are those that
\* do.  Channel t has the canonical id UCt followed by 21 times x.
Tags == {"1", "2", "3"}

CanonicalId(tag) == <<"U", "C", tag>> \o Rep("x", IdBodyLen - 1)

IdOf == [t \in Tags \cup {"z"} |-> CanonicalId(t)]

NoChannel == ""

\* the channel whose feed the endpoint serves for ?channel_id=<channel_id>
KeyOf(channel_id) ==
    IF /\ Len(channel_id) = 2 + IdBodyLen
       /\ channel_id[3] \in DOMAIN feed
       /\ channel_id = IdOf[channel_id[3]]
    THEN channel_id[3]
    ELSE NoChannel

\* entry.author of the entries of a channel's feed
ChannelAuthor(c) ==
    CASE c = "1" -> <<"A", "b">>
      [] c = "2" -> <<"a", "B">>
      [] OTHER   -> <<"B", "a">>

\* the videos a channel can show: channel "1" is the one under study, the
\* other channels have a single video, which comes and goes
ItemsOf(c) == IF c = "1" THEN 1..MaxItem ELSE {1}

AllItems == 1..MaxItem

Range(s) == {s[i] : i \in 1..Len(s)}

\* the entries of a feed, newest (highest id) first
RECURSIVE NewestFirst(_)
NewestFirst(S) ==
    IF S = {} THEN <<>>
    ELSE LET m == CHOOSE x \in S : \A y \in S : y <= x
         IN  <<m>> \o NewestFirst(S \ {m})

Put(f, k, v) == [x \in DOMAIN f \cup {k} |-> IF x = k THEN v ELSE f[x]]


\* the status of the response not checked: the entries are read whatever it is
get_channel_videos_unchecked(channel_id, ok) ==
    IF KeyOf(channel_id) # NoChannel
    THEN Take(feed[KeyOf(channel_id)], PageSize)
    ELSE <<>>

\* the mutant returns every entry of the feed
get_channel_videos_uncut(channel_id, ok) ==
    IF ok /\ KeyOf(channel_id) # NoChannel
    THEN feed[KeyOf(channel_id)]
    ELSE <<>>

\* get_channel_videos: the video_id of the first 5 entries; [] on any failure
\* (ok = FALSE: timeout, connection error, status other than 200, parse error)
get_channel_videos(channel_id, ok) ==
    IF ok /\ KeyOf(channel_id) # NoChannel
    THEN Take(feed[KeyOf(channel_id)], PageSize)
    ELSE <<>>

\* the mutant takes every channel id for valid
validate_channel_simple_trusting(channel_id, ok) ==
    [valid |-> TRUE, name |-> ChannelAuthor(KeyOf(channel_id))]

\* validate_channel_simple: (is_valid, channel_name)
validate_channel_simple(channel_id, ok) ==
    IF ok /\ KeyOf(channel_id) # NoChannel /\ Len(feed[KeyOf(channel_id)]) > 0
    THEN [valid |-> TRUE, name |-> ChannelAuthor(KeyOf(channel_id))]
    ELSE [valid |-> FALSE, name |-> None]

-----------------------------------------------------------------------------
(* Messages handed to send_telegram_message.                               *)

Msg(kind) ==
    [kind |-> kind, id |-> None, name |-> None, video |-> 0, ok |-> TRUE,
     counts |-> <<>>, listing |-> <<>>]

MsgId(kind, channel_id, name) == [Msg(kind) EXCEPT !.id = channel_id, !.name = name]

\* format_video_message, and whether sendMessage returned success
MsgVideo(channel_name, video_id, ok) ==
    [Msg("video") EXCEPT !.name = channel_name, !.video = video_id, !.ok = ok]

Registration(name, channel_id) ==
    [name |-> name, channel_id |-> channel_id, enabled |-> TRUE]

Entry(ids, name) == [last_video_ids |-> ids, channel_name |-> name]

RegisteredIds(chs) == {chs[i].channel_id : i \in 1..Len(chs)}

-----------------------------------------------------------------------------
(* Inputs of the commands.                                                 *)

Https == <<"h","t","t","p","s",":","/","/","w","w","w",".">>

ChannelUrl(channel_id) == Https \o ChannelUrlLiteral \o channel_id

HandleUrlLiteral == <<"y","o","u","t","u","b","e",".","c","o","m","/","@">>

Handle == <<"a", "b">>

\* https://www.youtube.com/@ab
HandleUrl == Https \o HandleUrlLiteral \o Handle

\* a handle URL that also carries the /channel/ path of a channel without feed
MixedUrl == HandleUrlLiteral \o Handle \o <<"/">> \o ChannelUrlLiteral \o CanonicalId("z")

AddInputs ==
    {CanonicalId("1"), CanonicalId("2"), CanonicalId("3"),
     ChannelUrl(CanonicalId("1")), HandleUrl, MixedUrl}

\* extract_channel_id_simple on each input, computed once
ExtractOf == [i \in AddInputs |-> extract_channel_id_simple(i)]

RemoveInputs == {<<"a", "b">>, <<"B">>, <<"b", "A">>, <<"z">>}

-----------------------------------------------------------------------------
(* History variables.                                                      *)

\* fetched[c]: what the latest pass that reached channel c fetched for it,
\* with no /add or /remove since; with track = "latest", the result of the
\* latest non-empty get_channel_videos call made for c by /add or by a pass
NotFetched == <<0>>

NoFetches == [c \in DOMAIN feed |-> NotFetched]

\* the history variables are kept per channel of the feed source
Fetched(channel_id, vs) ==
    IF track = "fetched" /\ KeyOf(channel_id) # NoChannel
    THEN [fetched EXCEPT ![KeyOf(channel_id)] = vs]
    ELSE IF track = "latest" /\ KeyOf(channel_id) # NoChannel /\ vs # <<>>
    THEN [fetched EXCEPT ![KeyOf(channel_id)] = vs]
    ELSE fetched

ForgetFetches == IF track = "fetched" THEN NoFetches ELSE fetched

\* `fetched` after an /add that fetched vs to seed the poll-state
FetchedByAdd(channel_id, vs) ==
    IF track = "latest" THEN Fetched(channel_id, vs) ELSE ForgetFetches

Added(channel_id) ==
    IF track = "justAdded" THEN justAdded \cup {KeyOf(channel_id)} ELSE justAdded

\* notified[c].ever: every id a pass has notified for channel c;
\* notified[c].live: those of them that every non-empty fetch of the channel
\* since (by a pass or by /add) contained
\* With track = "returned": notified[c].ever: every id that a non-empty
\* fetch made for c by /add or by a pass contained, each of which has been in
\* the seen-set; notified[c].live: the ids of the latest such fetch;
\* notified[c].again: the ids a pass notified when they came back
NoneNotified == [ever |-> {}, live |-> {}, again |-> {}]

\* `notified` after a non-empty fetch f of a channel of which `sent` were
\* notified
NotifiedAfterFetch(channel_id, f, sent) ==
    LET c == KeyOf(channel_id)
    IN  IF track = "notified" /\ c # NoChannel
        THEN [notified EXCEPT ![c] = [ever |-> @.ever \cup sent,
                                      live |-> (@.live \cap Range(f)) \cup sent,
                                      again |-> @.again]]
        ELSE IF track = "returned" /\ c # NoChannel
        THEN [notified EXCEPT ![c] = [ever |-> @.ever \cup Range(f),
                                      live |-> Range(f),
                                      again |-> @.again \cup
                                                (sent \cap (@.ever \ @.live))]]
        ELSE notified

\* delivered[c].new: every id a pass classified as new for channel c;
\* delivered[c].sent: those of them for which sendMessage returned success
NoneDelivered == [new |-> {}, sent |-> {}]

\* `delivered` after the notifications of `new` were sent with results `oks`
DeliveredAfter(channel_id, new, oks) ==
    LET c == KeyOf(channel_id)
    IN  IF track = "delivery" /\ c # NoChannel
        THEN [delivered EXCEPT ![c] =
                [new  |-> @.new \cup Range(new),
                 sent |-> @.sent \cup {new[i] : i \in {j \in 1..Len(new) : oks[j]}}]]
        ELSE delivered

PassVars == <<pc, adding, idx, saved_data, saves, delivered, track>>

-----------------------------------------------------------------------------
(* handle_command: the commands that only answer.                          *)

cmd_start ==
    /\ pc = "idle"
    /\ outbox' = <<Msg("start")>>
    /\ videos' = <<>>
    /\ UNCHANGED <<revision, channels, data, feed, PassVars, fetched, notified, justAdded>>

cmd_help ==
    /\ cmd_start

cmd_list_channels ==
    /\ pc = "idle"
    /\ outbox' = IF channels = <<>> THEN <<Msg("list_empty")>>
                 ELSE <<[Msg("list") EXCEPT !.listing = channels]>>
    /\ videos' = <<>>
    /\ UNCHANGED <<revision, channels, data, feed, PassVars, fetched, notified, justAdded>>

RECURSIVE SumLen(_, _)
SumLen(d, keys) ==
    IF keys = {} THEN 0
    ELSE LET k == CHOOSE x \in keys : TRUE
         IN  Len(d[k].last_video_ids) + SumLen(d, keys \ {k})

cmd_status ==
    /\ pc = "idle"
    /\ LET enabled_channels == Cardinality({i \in 1..Len(channels) : channels[i].enabled})
           total_videos_tracked == SumLen(data, DOMAIN data)
       IN  outbox' = <<[Msg("status") EXCEPT
                          !.counts = <<enabled_channels, Len(channels),
                                       total_videos_tracked>>]>>
    /\ videos' = <<>>
    /\ UNCHANGED <<revision, channels, data, feed, PassVars, fetched, notified, justAdded>>

\* /add or /remove without argument, and every other command
cmd_usage ==
    /\ pc = "idle"
    /\ \E kind \in {"add_usage", "remove_usage", "unknown_command"} :
          outbox' = <<Msg(kind)>>
    /\ videos' = <<>>
    /\ UNCHANGED <<revision, channels, data, feed, PassVars, fetched, notified, justAdded>>

\* handle_command answers without calling a cmd_ method, the mutant is silent
cmd_answer_silent(kind) ==
    /\ pc = "idle"
    /\ outbox' = <<>>
    /\ videos' = <<>>
    /\ UNCHANGED <<revision, channels, data, feed, PassVars, fetched, notified, justAdded>>

\* handle_command answers without calling a cmd_ method: the usage of /add,
\* the usage of /remove, or that the command is not recognised
cmd_answer(kind) ==
    /\ pc = "idle"
    /\ outbox' = <<Msg(kind)>>
    /\ videos' = <<>>
    /\ UNCHANGED <<revision, channels, data, feed, PassVars, fetched, notified, justAdded>>

\* a command raises before it changed a file: the except clause of the
\* cmd_ method, or the one of handle_command, sends the error message
cmd_raises ==
    /\ pc = "idle"
    /\ outbox' = <<Msg("internal_error")>>
    /\ videos' = <<>>
    /\ UNCHANGED <<revision, channels, data, feed, PassVars, fetched, notified, justAdded>>

\* an update that is not answered: no message, another chat, no command
nothing_to_do ==
    /\ pc = "idle"
    /\ outbox' = <<>>
    /\ videos' = <<>>
    /\ UNCHANGED <<revision, channels, data, feed, PassVars, fetched, notified, justAdded>>

-----------------------------------------------------------------------------
(* cmd_remove_channel                                                      *)

\* the index of the last registration whose name contains the text, or 0
LastMatch(chs, channel_name) ==
    LET hits == {i \in 1..Len(chs) : Contains(Lower(chs[i].name), Lower(channel_name))}
    IN  IF hits = {} THEN 0 ELSE CHOOSE m \in hits : \A k \in hits : k <= m

\* the index of the first registration whose name contains the text, or 0
FirstMatch(chs, channel_name) ==
    LET hits == {i \in 1..Len(chs) : Contains(Lower(chs[i].name), Lower(channel_name))}
    IN  IF hits = {} THEN 0 ELSE Min(hits)

\* the mutant drops the registration at index and every later one
PopFrom(chs, index) == SubSeq(chs, 1, index - 1)

\* list.pop(index)
Pop(chs, index) == SubSeq(chs, 1, index - 1) \o SubSeq(chs, index + 1, Len(chs))

\* the mutant deletes the poll-state entry of the channel it removes
cmd_remove_channel_forgetting(channel_name) ==
    /\ pc = "idle"
    /\ videos' = <<>>
    /\ UNCHANGED <<revision, feed, PassVars, notified>>
    /\ IF channels = <<>>
       THEN /\ outbox' = <<Msg("list_empty")>>
            /\ UNCHANGED <<channels, data, fetched, justAdded>>
       ELSE LET index == FirstMatch(channels, channel_name)
            IN  IF index = 0
                THEN /\ outbox' = <<Msg("not_found")>>
                     /\ UNCHANGED <<channels, data, fetched, justAdded>>
                ELSE /\ channels' = Pop(channels, index)
                     /\ data' = [k \in DOMAIN data \ {channels[index].channel_id}
                                    |-> data[k]]
                     /\ outbox' = <<MsgId("removed", None, channels[index].name)>>
                     /\ fetched' = ForgetFetches
                     /\ justAdded' = justAdded \ {KeyOf(channels[index].channel_id)}

\* lines 365-396: the registration is popped and save_channels called
cmd_remove_channel(channel_name) ==
    /\ pc = "idle"
    /\ videos' = <<>>
    /\ UNCHANGED <<revision, data, feed, PassVars, notified>>
    /\ IF channels = <<>>
       THEN /\ outbox' = <<Msg("list_empty")>>
            /\ UNCHANGED <<channels, fetched, justAdded>>
       ELSE LET index == FirstMatch(channels, channel_name)
            IN  IF index = 0
                THEN /\ outbox' = <<Msg("not_found")>>
                     /\ UNCHANGED <<channels, fetched, justAdded>>
                ELSE /\ channels' = Pop(channels, index)
                     /\ outbox' = <<MsgId("removed", None, channels[index].name)>>
                     /\ fetched' = ForgetFetches
                     /\ justAdded' = justAdded \ {KeyOf(channels[index].channel_id)}

-----------------------------------------------------------------------------
(* cmd_add_channel, revision 1                                             *)

\* the registry searched for a name equal to the id
IsRegisteredByName(channel_id) == \E i \in 1..Len(channels) : channels[i].name = channel_id

\* lines 313-320 and 903-907: any(ch['channel_id'] == channel_id ...)
IsRegistered(channel_id) == \E i \in 1..Len(channels) : channels[i].channel_id = channel_id

AddFrame == UNCHANGED <<channels, data, fetched, notified, justAdded>>

\* lines 266-363.  vOk, fOk: whether the validator's and the seed fetch's
\* request succeeds
cmd_add_channel_1(channel_input, vOk, fOk) ==
    /\ pc = "idle"
    /\ revision = 1
    /\ UNCHANGED <<revision, feed, PassVars>>
    /\ LET channel_id == ExtractOf[channel_input]
           v == validate_channel_simple(channel_id, vOk)
           current_videos == get_channel_videos(channel_id, fOk)
       IN  IF channel_id = None
           THEN /\ outbox' = <<Msg("validating"), Msg("invalid_format")>>
                /\ videos' = <<>>
                /\ AddFrame
           ELSE IF ~v.valid
           THEN /\ outbox' = <<Msg("validating"),
                               MsgId("invalid_channel", channel_id, None)>>
                /\ videos' = <<>>
                /\ AddFrame
           ELSE IF IsRegistered(channel_id)
           THEN /\ outbox' = <<Msg("validating"),
                               MsgId("already_monitored", None, v.name)>>
                /\ videos' = <<>>
                /\ AddFrame
           ELSE /\ videos' = current_videos
                /\ data' = IF current_videos # <<>>
                           THEN Put(data, channel_id, Entry(current_videos, v.name))
                           ELSE data
                /\ channels' = Append(channels, Registration(v.name, channel_id))
                /\ outbox' = <<Msg("validating"), Msg("configuring"),
                               [MsgId("added", channel_id, v.name) EXCEPT
                                   !.counts = <<Len(current_videos)>>]>>
                /\ notified' = IF current_videos # <<>>
                               THEN NotifiedAfterFetch(channel_id, current_videos, {})
                               ELSE notified
                /\ fetched' = FetchedByAdd(channel_id, current_videos)
                /\ justAdded' = Added(channel_id)

-----------------------------------------------------------------------------
(* cmd_add_channel, revision 1, write by write: an accepted /add writes    *)
(* the poll-state (line 336), then the registry (line 348).                *)

\* the mutant writes the registry first
writes_registry_first == <<"save_channels", "save_data">>

\* the order of the two writes of lines 322-348
writes == <<"save_data", "save_channels">>

\* one of the two writes, for the channel being added and its seed fetch
Write(w, channel_id, channel_name, current_videos) ==
    IF w = "save_data"
    THEN /\ data' = IF current_videos # <<>>
                    THEN Put(data, channel_id, Entry(current_videos, channel_name))
                    ELSE data
         /\ UNCHANGED channels
    ELSE /\ channels' = Append(channels, Registration(channel_name, channel_id))
         /\ UNCHANGED data

AddingFrame == UNCHANGED <<revision, feed, idx, saved_data, saves, delivered,
                           track, fetched, notified, justAdded>>

\* lines 266-336: an /add that is accepted, up to and including its first
\* write
cmd_add_channel_1_first(channel_input, vOk, fOk) ==
    /\ pc = "idle"
    /\ revision = 1
    /\ LET channel_id == ExtractOf[channel_input]
           v == validate_channel_simple(channel_id, vOk)
           current_videos == get_channel_videos(channel_id, fOk)
       IN  /\ channel_id # None
           /\ v.valid
           /\ ~IsRegistered(channel_id)
           /\ videos' = current_videos
           /\ adding' = [channel_id |-> channel_id, name |-> v.name]
           /\ Write(writes[1], channel_id, v.name, current_videos)
    /\ outbox' = <<Msg("validating"), Msg("configuring")>>
    /\ pc' = "add"
    /\ AddingFrame

\* lines 338-358: the second write, and the answer
cmd_add_channel_1_second ==
    /\ pc = "add"
    /\ Write(writes[2], adding.channel_id, adding.name, videos)
    /\ outbox' = <<[MsgId("added", adding.channel_id, adding.name) EXCEPT
                       !.counts = <<Len(videos)>>]>>
    /\ pc' = "idle"
    /\ adding' = None
    /\ UNCHANGED videos
    /\ AddingFrame

\* the second write does not happen: it raises (lines 361-363 answer with
\* the error message), or the process stops and is started again
cmd_add_channel_1_interrupted ==
    /\ pc = "add"
    /\ \E answered \in BOOLEAN :
          outbox' = IF answered THEN <<Msg("internal_error")>> ELSE <<>>
    /\ pc' = "idle"
    /\ adding' = None
    /\ videos' = <<>>
    /\ UNCHANGED <<channels, data>>
    /\ AddingFrame

-----------------------------------------------------------------------------
(* handle_to_channel_id and cmd_add_channel, revision 2                    *)

StopChars == {"/", "?", "&", " "}

\* the end of the run of [^/?&\s] that starts at position p of s
RECURSIVE RunEnd(_, _)
RunEnd(s, p) == IF p < Len(s) /\ s[p + 1] \notin StopChars THEN RunEnd(s, p + 1) ELSE p

\* re.search(lit + r'([^/?&\s]+)', s).group(1), or None
HandleGroup(lit, s) ==
    LET starts == {p \in 1..Len(s) :
                     /\ p + Len(lit) <= Len(s)
                     /\ SubSeq(s, p, p + Len(lit) - 1) = lit
                     /\ s[p + Len(lit)] \notin StopChars}
    IN  IF starts = {} THEN None
        ELSE LET q == Min(starts) + Len(lit) IN SubSeq(s, q, RunEnd(s, q))

YoutubeLiteral == <<"y","o","u","t","u","b","e",".","c","o","m">>

url_patterns == <<YoutubeLiteral \o <<"/","c","/">>,
                  YoutubeLiteral \o <<"/","@">>,
                  YoutubeLiteral \o <<"/","u","s","e","r","/">>>>

ChannelIdKey == <<"\"","c","h","a","n","n","e","l","I","d","\"",":","\"">>

\* re.search(lit + r'([UC][a-zA-Z0-9_-]{22})"', s).group(1), or None
SearchGroupQuoted(lit, s) ==
    LET starts == {p \in GroupStarts(lit, s) :
                     /\ p + Len(lit) + IdBodyLen + 1 <= Len(s)
                     /\ s[p + Len(lit) + IdBodyLen + 1] = "\""}
    IN  IF starts = {} THEN None
        ELSE LET q == Min(starts) + Len(lit) IN SubSeq(s, q, q + IdBodyLen)

\* the profile page of the channel `target`, as far as the patterns read it
PageContent(target) ==
    ChannelIdKey \o target \o <<"\"", " ">> \o ChannelPathLiteral \o target

\* how: what the network yields for the handle: "rss" (a feed whose entries
\* carry yt_channelid = target), "page" (the profile page of target), "none"
\* lines 640-653: the first pattern that matches the page of `target`
ScrapePage(target) ==
    LET content == PageContent(target)
        byKey == SearchGroupQuoted(ChannelIdKey, content)
        byPath == SearchGroup(ChannelPathLiteral, content)
    IN  IF byKey # None THEN byKey ELSE byPath

\* ScrapePage on the page of each channel, computed once
ScrapeOf == [t \in Tags |-> ScrapePage(IdOf[t])]

handle_to_channel_id(handle, how, target) ==
    IF how = "rss" THEN target
    ELSE IF how = "page" /\ ScrapeOf[target[3]] # None THEN ScrapeOf[target[3]]
    ELSE handle

\* the handle each of url_patterns finds in each input, computed once
HandlesOf == [i \in AddInputs |->
                [k \in 1..Len(url_patterns) |-> HandleGroup(url_patterns[k], i)]]

\* 'youtube.com' in channel_input.lower(), computed once
MentionsYoutube == [i \in AddInputs |-> Contains(Lower(i), YoutubeLiteral)]

\* lines 873-893: the loop over url_patterns; cur = (is_valid, channel_name, channel_id)
RECURSIVE TryPatterns(_, _, _, _, _, _)
TryPatterns(k, channel_input, cur, how, target, vOk) ==
    IF k > Len(url_patterns) THEN cur
    ELSE LET handle == HandlesOf[channel_input][k]
             alternative_id == handle_to_channel_id(handle, how, target)
             v == validate_channel_simple(alternative_id, vOk)
         IN  IF handle = None \/ alternative_id = handle
             THEN TryPatterns(k + 1, channel_input, cur, how, target, vOk)
             ELSE IF v.valid
             THEN [valid |-> TRUE, name |-> v.name, id |-> alternative_id]
             ELSE TryPatterns(k + 1, channel_input,
                              [cur EXCEPT !.valid = FALSE, !.name = None],
                              how, target, vOk)

\* what the network yields for a handle
Resolutions == {"rss", "page", "none"}

\* lines 847-924.  vOk: whether the validator's requests succeed; how, target:
\* what handle_to_channel_id finds on the network
cmd_add_channel_2(channel_input, vOk, how, target) ==
    /\ pc = "idle"
    /\ revision = 2
    /\ videos' = <<>>
    /\ UNCHANGED <<revision, data, feed, PassVars, notified>>
    /\ LET id0 == ExtractOf[channel_input]
           v0 == validate_channel_simple(id0, vOk)
           first == [valid |-> v0.valid, name |-> v0.name, id |-> id0]
           r == IF ~v0.valid /\ MentionsYoutube[channel_input]
                THEN TryPatterns(1, channel_input, first, how, target, vOk)
                ELSE first
           retry == IF v0.valid THEN <<>> ELSE <<Msg("first_attempt_failed")>>
           said == <<Msg("processing"), MsgId("trying", id0, None)>> \o retry
       IN  IF id0 = None
           THEN /\ outbox' = <<Msg("processing"), Msg("cannot_extract")>>
                /\ UNCHANGED <<channels, fetched, justAdded>>
           ELSE IF ~r.valid
           THEN /\ outbox' = said \o <<MsgId("channel_not_found", r.id, None)>>
                /\ UNCHANGED <<channels, fetched, justAdded>>
           ELSE IF IsRegistered(r.id)
           THEN /\ outbox' = said \o <<MsgId("already_monitored", None, r.name)>>
                /\ UNCHANGED <<channels, fetched, justAdded>>
           ELSE /\ channels' = Append(channels, Registration(r.name, r.id))
                /\ outbox' = said \o <<MsgId("added", r.id, r.name)>>
                /\ fetched' = ForgetFetches
                /\ justAdded' = Added(r.id)

-----------------------------------------------------------------------------
(* check_new_videos                                                        *)

\* the filter of lines 496-500 left out: every fetched video counts as new
new_videos_without_filter(vs, last_video_ids) == vs

\* the new videos collected newest last
new_videos_newest_last(vs, last_video_ids) ==
    LET new == SelectSeq(vs, LAMBDA v : v \notin Range(last_video_ids))
    IN  [i \in 1..Len(new) |-> new[Len(new) + 1 - i]]

\* lines 496-500 and 1052-1053: the fetched videos whose id is not in the list
new_videos_in_this_channel(vs, last_video_ids) ==
    SelectSeq(vs, LAMBDA v : v \notin Range(last_video_ids))

\* the assignment of line 511 left out: the list of ids keeps its old value
updated_entry_keeping_ids(entry, vs, channel_name) ==
    [entry EXCEPT !.channel_name = channel_name]

\* the fetched ids merged into the list instead of replacing it
updated_entry_merging(entry, vs, channel_name) ==
    [entry EXCEPT !.last_video_ids =
                      vs \o SelectSeq(@, LAMBDA v : v \notin Range(vs)),
                  !.channel_name = channel_name]

\* lines 510-512 and 1062-1064: the entry after the channel has been processed
updated_entry(entry, vs, channel_name) ==
    [entry EXCEPT !.last_video_ids = vs, !.channel_name = channel_name]

\* lines 460-467: load the registry, return if it is empty, load the poll-state
check_new_videos_begin ==
    /\ pc = "idle"
    /\ outbox' = <<>>
    /\ videos' = <<>>
    /\ saves' = IF track = "saves" THEN 0 ELSE saves
    /\ IF channels = <<>>
       THEN UNCHANGED <<pc, idx, saved_data, track>>
       ELSE /\ pc' = "pass"
            /\ idx' = 1
            /\ saved_data' = data
            /\ UNCHANGED track
    /\ UNCHANGED <<delivered, adding>>
    /\ UNCHANGED <<revision, channels, data, feed, fetched, notified, justAdded>>

\* the notifications of the new videos, each with the result of its send
Notify(channel_name, new, oks) ==
    [i \in 1..Len(new) |-> MsgVideo(channel_name, new[i], oks[i])]

\* The results sendMessage can return for n notifications.  check_new_videos
\* reads them only to choose a log line (lines 505-507, 1058-1059), so only
\* the behaviours with track = "delivery" record a failed send.
SendResults(n) ==
    IF track = "delivery" THEN [1..n -> BOOLEAN] ELSE {[i \in 1..n |-> TRUE]}

\* one iteration of the loop of lines 469-517 (revision 1)
check_new_videos_channel_1(fOk) ==
    /\ pc = "pass"
    /\ revision = 1
    /\ idx <= Len(channels)
    /\ LET channel == channels[idx]
           channel_id == channel.channel_id
           channel_name == channel.name
           vs == IF channel.enabled THEN get_channel_videos(channel_id, fOk) ELSE <<>>
       IN  /\ videos' = vs
           /\ fetched' = IF channel.enabled THEN Fetched(channel_id, vs) ELSE fetched
           /\ justAdded' = justAdded \ {KeyOf(channel_id)}
           /\ IF vs = <<>>
              THEN /\ outbox' = <<>>
                   /\ UNCHANGED <<saved_data, notified, delivered>>
              ELSE IF channel_id \notin DOMAIN saved_data
              THEN /\ outbox' = <<>>
                   /\ saved_data' = Put(saved_data, channel_id, Entry(vs, channel_name))
                   /\ UNCHANGED delivered
                   /\ notified' = NotifiedAfterFetch(channel_id, vs, {})
              ELSE LET new == new_videos_in_this_channel(
                                  vs, saved_data[channel_id].last_video_ids)
                   IN  /\ \E oks \in SendResults(Len(new)) :
                              /\ outbox' = Notify(channel_name, new, oks)
                              /\ delivered' = DeliveredAfter(channel_id, new, oks)
                       /\ saved_data' = [saved_data EXCEPT ![channel_id] =
                                            updated_entry(@, vs, channel_name)]
                       /\ notified' = NotifiedAfterFetch(channel_id, vs, Range(new))
    /\ idx' = idx + 1
    /\ UNCHANGED <<revision, channels, data, feed, pc, adding, saves, track>>

\* one iteration of the loop of lines 1028-1064 (revision 2)
check_new_videos_channel_2(fOk) ==
    /\ pc = "pass"
    /\ revision = 2
    /\ idx <= Len(channels)
    /\ LET channel == channels[idx]
           channel_id == channel.channel_id
           channel_name == channel.name
           vs == IF channel.enabled THEN get_channel_videos(channel_id, fOk) ELSE <<>>
           entry == IF channel_id \in DOMAIN saved_data
                    THEN saved_data[channel_id]
                    ELSE Entry(<<>>, channel_name)
           new == new_videos_in_this_channel(vs, entry.last_video_ids)
       IN  /\ videos' = vs
           /\ fetched' = IF channel.enabled THEN Fetched(channel_id, vs) ELSE fetched
           /\ justAdded' = justAdded \ {KeyOf(channel_id)}
           /\ IF vs = <<>>
              THEN /\ outbox' = <<>>
                   /\ UNCHANGED <<saved_data, notified, delivered>>
              ELSE /\ \E oks \in SendResults(Len(new)) :
                          /\ outbox' = Notify(channel_name, new, oks)
                          /\ delivered' = DeliveredAfter(channel_id, new, oks)
                   /\ saved_data' = Put(saved_data, channel_id,
                                        updated_entry(entry, vs, channel_name))
                   /\ notified' = NotifiedAfterFetch(channel_id, vs, Range(new))
    /\ idx' = idx + 1
    /\ UNCHANGED <<revision, channels, data, feed, pc, adding, saves, track>>

\* the save_data call of line 520 left out
check_new_videos_end_without_save ==
    /\ pc = "pass"
    /\ idx > Len(channels)
    /\ pc' = "idle"
    /\ idx' = 0
    /\ saved_data' = <<>>
    /\ outbox' = <<>>
    /\ videos' = <<>>
    /\ UNCHANGED <<revision, channels, data, feed, fetched, notified, justAdded,
                   saves, delivered, adding, track>>

\* lines 519-520 and 1066-1067: save_data(saved_data)
check_new_videos_end ==
    /\ pc = "pass"
    /\ idx > Len(channels)
    /\ data' = saved_data
    /\ saves' = IF track = "saves" THEN saves + 1 ELSE saves
    /\ pc' = "idle"
    /\ idx' = 0
    /\ saved_data' = <<>>
    /\ outbox' = <<>>
    /\ videos' = <<>>
    /\ UNCHANGED <<revision, channels, feed, fetched, notified, justAdded,
                   delivered, adding, track>>

\* check_new_videos raises (a file that does not parse, a write that fails):
\* its except clause logs, nothing is written, the method returns
check_new_videos_raises ==
    /\ pc' = "idle"
    /\ idx' = 0
    /\ saved_data' = <<>>
    /\ outbox' = <<>>
    /\ videos' = <<>>
    /\ UNCHANGED <<revision, channels, data, feed, fetched, notified, justAdded,
                   saves, delivered, adding, track>>

-----------------------------------------------------------------------------
(* The feed source changes: a video is published, or is withdrawn (deleted *)
(* or made private) and may later come back.  A pass reads each feed once, *)
(* so a change during a pass acts like one before or after it.             *)

FeedChange(c, S) ==
    /\ pc = "idle"
    /\ feed' = [feed EXCEPT ![c] = NewestFirst(S)]
    /\ justAdded' = justAdded \ {c}
    /\ outbox' = <<>>
    /\ videos' = <<>>
    /\ UNCHANGED <<revision, channels, data, PassVars, fetched, notified>>
    /\ UNCHANGED <<ResolverVars, LoopVars>>

Publish == \E c \in DOMAIN feed : \E i \in ItemsOf(c) \ Range(feed[c]) :
               FeedChange(c, Range(feed[c]) \cup {i})

Withdraw == \E c \in DOMAIN feed : \E i \in Range(feed[c]) :
                FeedChange(c, Range(feed[c]) \ {i})

-----------------------------------------------------------------------------
(* The specifications.                                                     *)

\* the files absent and the feeds of the channels `ids`
InitFiles(ids, t) ==
    /\ revision \in {1, 2}
    /\ channels = <<>>
    /\ data = <<>>
    /\ feed \in [ids -> {NewestFirst(S) : S \in SUBSET AllItems}]
    /\ \A c \in ids : Range(feed[c]) \subseteq ItemsOf(c)
    /\ pc = "idle"
    /\ adding = None
    /\ idx = 0
    /\ saved_data = <<>>
    /\ videos = <<>>
    /\ outbox = <<>>
    /\ fetched = [c \in ids |-> NotFetched]
    /\ notified = [c \in ids |-> NoneNotified]
    /\ justAdded = {}
    /\ saves = 0
    /\ delivered = [c \in ids |-> NoneDelivered]
    /\ track = t

\* the resolver is not looked at alone
ResolverIdle ==
    /\ given = None
    /\ resolved = None
    /\ requests = <<>>

\* the control loop is not looked at: commands and passes come in any order
LoopFree ==
    /\ at = "free"
    /\ last_update_id = 0
    /\ updates = <<>>
    /\ update = None
    /\ video_check_counter = 0
    /\ telegram = 0

\* what a command, a pass or a feed change leaves alone
Free == UNCHANGED <<ResolverVars, LoopVars>>

\* the state after __init__, files absent, over the channels `ids`
InitOver(ids, t) ==
    /\ InitFiles(ids, t)
    /\ ResolverIdle
    /\ LoopFree

OneChannel == {"1"}

TwoChannels == {"1", "2"}

ThreeChannels == Tags

Init == InitOver(TwoChannels, "none")

AddChannel1 == \E i \in AddInputs, vOk \in BOOLEAN, fOk \in BOOLEAN :
                   cmd_add_channel_1(i, vOk, fOk) /\ Free

\* handle_to_channel_id is only reached for an input that mentions youtube.com
AddChannel2 == \E i \in AddInputs, vOk \in BOOLEAN :
               \E how \in IF MentionsYoutube[i] THEN Resolutions ELSE {"none"} :
               \E target \in IF MentionsYoutube[i]
                              THEN {IdOf[t] : t \in DOMAIN feed} ELSE {None} :
                   cmd_add_channel_2(i, vOk, how, target) /\ Free

RemoveChannel == \E t \in RemoveInputs : cmd_remove_channel(t) /\ Free

PassChannel1 == \E fOk \in BOOLEAN : check_new_videos_channel_1(fOk) /\ Free

PassChannel2 == \E fOk \in BOOLEAN : check_new_videos_channel_2(fOk) /\ Free

Commands ==
    \/ cmd_start /\ Free
    \/ cmd_help /\ Free
    \/ cmd_list_channels /\ Free
    \/ cmd_status /\ Free
    \/ cmd_usage /\ Free
    \/ AddChannel1
    \/ AddChannel2
    \/ RemoveChannel

Pass ==
    \/ check_new_videos_begin /\ Free
    \/ PassChannel1
    \/ PassChannel2
    \/ check_new_videos_end /\ Free

\* the operations that write the registry or the poll-state, and the feeds
Next ==
    \/ AddChannel1
    \/ AddChannel2
    \/ RemoveChannel
    \/ Pass
    \/ Publish
    \/ Withdraw

Spec == Init /\ [][Next]_vars

\* the same program, recording one history variable each
\* one channel, with the history of its notifications (the poll-state is
\* keyed by channel id: what a pass notifies for a channel depends on that
\* channel's entry and fetch only)
SpecNotified == InitOver(OneChannel, "notified") /\ [][Next]_vars

\* /add of revision 1 in two steps, with a stop between its writes
AddFirst == \E i \in AddInputs, vOk \in BOOLEAN, fOk \in BOOLEAN :
                cmd_add_channel_1_first(i, vOk, fOk) /\ Free

\* an /add that is rejected writes nothing
AddRejected == \E i \in AddInputs, vOk \in BOOLEAN, fOk \in BOOLEAN :
                   cmd_add_channel_1(i, vOk, fOk) /\ channels' = channels /\ Free

NextAdding ==
    \/ AddFirst
    \/ cmd_add_channel_1_second /\ Free
    \/ cmd_add_channel_1_interrupted /\ Free
    \/ AddRejected
    \/ AddChannel2
    \/ RemoveChannel
    \/ Pass
    \/ Publish
    \/ Withdraw

SpecAdding == Init /\ [][NextAdding]_vars

SpecReturned == InitOver(OneChannel, "returned") /\ [][Next]_vars

SpecDelivery == InitOver(OneChannel, "delivery") /\ [][Next]_vars

SpecFetched == InitOver(TwoChannels, "fetched") /\ [][Next]_vars

SpecAdded == InitOver(TwoChannels, "justAdded") /\ [][Next]_vars

\* the feed of channel "1" grows beyond the first page
PublishPaged == \E i \in (1..MaxPaged) \ Range(feed["1"]) :
                    FeedChange("1", Range(feed["1"]) \cup {i})

NextPaged ==
    \/ AddChannel1
    \/ AddChannel2
    \/ RemoveChannel
    \/ Pass
    \/ PublishPaged
    \/ Withdraw

SpecPaged == InitOver(OneChannel, "latest") /\ [][NextPaged]_vars

\* the writing operations, the feeds, and /status
NextStatus ==
    \/ Next
    \/ cmd_status /\ Free

SpecStatus == Init /\ [][NextStatus]_vars

SpecSaves == InitOver(TwoChannels, "saves") /\ [][Next]_vars

\* three channels whose feeds do not change, and every command
InitRegistry ==
    /\ InitOver(ThreeChannels, "none")
    /\ \A c \in DOMAIN feed : feed[c] = <<1>>

NextRegistry ==
    \/ Commands
    \/ Pass

SpecRegistry == InitRegistry /\ [][NextRegistry]_vars

-----------------------------------------------------------------------------
(* The resolver alone: extract_channel_id_simple and handle_to_channel_id  *)
(* applied to a text.                                                      *)

\* a canonical id that uses every kind of character of [a-zA-Z0-9_-]
VariedId == <<"U","C","a","Z","0","_","-","9","q">> \o Rep("x", IdBodyLen - 7)

ShortId == Take(CanonicalId("1"), IdBodyLen + 1)

Pads == {<<>>, <<" ">>, <<"\n">>, <<"\t", " ">>}

Texts ==
    {CanonicalId("1"), VariedId, ShortId, CanonicalId("1") \o <<"x">>,
     <<"U","C","!">> \o Rep("x", IdBodyLen - 1),
     <<"u","c">> \o Rep("x", IdBodyLen),
     ChannelUrl(CanonicalId("1")), ChannelUrl(VariedId), ChannelUrl(ShortId),
     ChannelUrl(CanonicalId("1")) \o <<"/","v","i","d","e","o","s">>,
     HandleUrl, MixedUrl, Handle, <<"@">> \o Handle,
     <<"y","o","u","t","u","b","e",".","c","o","m","/","c","/">> \o Handle}

ResolverInputs == {l \o t \o r : l \in Pads, t \in Texts, r \in Pads}

\* `resolved` before the resolver has returned
NotYet == <<"?">>

\* lines 589-592 and 619-623: the requests handle_to_channel_id can make
AllRequests == <<"rss user", "rss channel_id", "page c", "page @", "page user">>

\* the first n requests, the last of which yields an id iff `found`
RequestsUpTo(n, found) ==
    [i \in 1..n |-> [url |-> AllRequests[i], found |-> found /\ i = n]]

\* the requests made when the network yields the id by `how`
RequestsOf(how) ==
    IF how = "rss" THEN {RequestsUpTo(n, TRUE) : n \in 1..2}
    ELSE IF how = "page" THEN {RequestsUpTo(n, TRUE) : n \in 3..5}
    ELSE {RequestsUpTo(Len(AllRequests), FALSE)}

Extract ==
    /\ resolved = NotYet
    /\ resolved' = extract_channel_id_simple(given)
    /\ requests' = <<>>
    /\ UNCHANGED <<given, ProgramVars, LoopVars>>

HandleToChannelId ==
    /\ resolved = NotYet
    /\ \E how \in Resolutions, target \in {IdOf[t] : t \in Tags} :
          /\ resolved' = handle_to_channel_id(given, how, target)
          /\ requests' \in RequestsOf(how)
    /\ UNCHANGED <<given, ProgramVars, LoopVars>>

InitResolver ==
    /\ InitFiles(OneChannel, "none")
    /\ feed["1"] = <<1>>
    /\ LoopFree
    /\ given \in ResolverInputs
    /\ resolved = NotYet
    /\ requests = <<>>

NextResolver ==
    \/ Extract
    \/ HandleToChannelId

SpecResolver == InitResolver /\ [][NextResolver]_vars

-----------------------------------------------------------------------------
(* The control loop: run_forever drains the commands, counts the           *)
(* iterations and runs check_new_videos on every CheckEvery-th one.        *)

\* self.chat_id, and a chat that is not the configured one
chat_id == "me"

Chats == {chat_id, "other"}

Slash == <<"/">>

\* the texts the updates carry, as sent: commands with and without
\* argument, in mixed case and padded, an unknown command, and plain text
LoopTexts ==
    {<<"/", "s", "t", "a", "r", "t">>,
     <<"/", "h", "e", "l", "p">>,
     <<" ", "/", "l", "i", "s", "t", " ">>,
     <<"/", "s", "t", "a", "t", "u", "s">>,
     <<"/", "a", "d", "d">>,
     <<"/", "a", "d", "d", " ">> \o CanonicalId("1"),
     <<"/", "A", "d", "d", " ", " ">> \o HandleUrl,
     <<"/", "r", "e", "m", "o", "v", "e">>,
     <<"/", "r", "e", "m", "o", "v", "e", " ", "a", "b">>,
     <<"/", "r", "e", "m", "o", "v", "e", " ", "z">>,
     <<"/", "x">>,
     <<"a", "b">>}

\* str.split(None, 1) of a stripped text: the first word, and the rest
\* without the whitespace between them when there is one
RECURSIVE WordEnd(_, _)
WordEnd(s, p) == IF p <= Len(s) /\ s[p] \notin Whitespace
                 THEN WordEnd(s, p + 1) ELSE p

Split1(s) ==
    LET e == WordEnd(s, 1)
        rest == LStrip(SubSeq(s, e, Len(s)))
    IN  IF rest = <<>> THEN <<SubSeq(s, 1, e - 1)>>
        ELSE <<SubSeq(s, 1, e - 1), rest>>

\* message.get('text', '').strip() of each text, computed once
StrippedOf == [t \in LoopTexts |-> Strip(t)]

\* parts and cmd of handle_command for each stripped text, computed once
CommandOf == [c \in {StrippedOf[t] : t \in LoopTexts} |->
                [parts |-> Split1(c), cmd |-> Lower(Split1(c)[1])]]

\* text.startswith('/')
StartsWithSlash(text) == Take(text, 1) = Slash

\* the mutant handles the updates of every chat
from_anyone(chat) == TRUE

\* chat_id == self.chat_id
from_recipient(chat) == chat = chat_id

\* the mutant asks again for the update at the watermark
offset_at_watermark(last) == last

\* 'offset': self.last_update_id + 1
offset(last) == last + 1

\* getUpdates: the updates sent so far whose id is not below `from`
Pending(from) ==
    LET first == IF from < 1 THEN 1 ELSE from
    IN  [i \in 1..(telegram - first + 1) |-> first + i - 1]

\* get_telegram_updates: the pending updates, or [] when the request fails
get_telegram_updates(ok) ==
    IF ok THEN Pending(offset(last_update_id)) ELSE <<>>

\* the mutant lets the exception end run_forever
run_forever_unguarded == "stopped"

\* except Exception of run_forever: log, sleep 30 seconds, next iteration
run_forever_except == "guard"

\* the mutant runs the pass on every 12th iteration whatever the revision
CheckEveryTwelfth == CheckEvery1

\* the threshold of video_check_counter
CheckEvery == IF revision = 1 THEN CheckEvery1 ELSE CheckEvery2

\* the update with id `id`: without 'message', with a message that lacks its
\* chat, or with a message of some chat carrying some text
UpdatesWith(id) ==
    {[update_id |-> id, shape |-> sh, chat |-> None, text |-> None] :
        sh \in {"no_message", "malformed"}}
    \cup {[update_id |-> id, shape |-> "message", chat |-> c, text |-> t] :
            c \in Chats, t \in LoopTexts}

LoopKeeps == UNCHANGED ResolverVars

\* run_forever before its loop: the start message
run_forever_start ==
    /\ at = "start"
    /\ cmd_answer("started")
    /\ at' = "drain"
    /\ video_check_counter' = 0
    /\ UNCHANGED <<last_update_id, updates, update, telegram>>
    /\ LoopKeeps

\* process_telegram_commands, its first line: the batch, or an exception
\* that leaves the method (a result that is not a list)
process_telegram_commands_drain ==
    /\ at = "drain"
    /\ nothing_to_do
    /\ \/ \E ok \in BOOLEAN :
            /\ updates' = get_telegram_updates(ok)
            /\ at' = "handle"
       \/ /\ updates' = <<>>
          /\ at' = run_forever_except
    /\ update' = None
    /\ UNCHANGED <<last_update_id, video_check_counter, telegram>>
    /\ LoopKeeps

\* handle_command
handle_command(command) ==
    LET parts == CommandOf[command].parts
        cmd == CommandOf[command].cmd
    IN  \/ cmd = <<"/", "s", "t", "a", "r", "t">> /\ cmd_start
        \/ cmd = <<"/", "h", "e", "l", "p">> /\ cmd_help
        \/ cmd = <<"/", "l", "i", "s", "t">> /\ (cmd_list_channels \/ cmd_raises)
        \/ /\ cmd = <<"/", "a", "d", "d">>
           /\ IF Len(parts) > 1
              THEN \/ \E vOk \in BOOLEAN, fOk \in BOOLEAN :
                         cmd_add_channel_1(parts[2], vOk, fOk)
                   \/ \E vOk \in BOOLEAN :
                      \E how \in IF MentionsYoutube[parts[2]]
                                 THEN Resolutions ELSE {"none"} :
                      \E target \in IF MentionsYoutube[parts[2]]
                                    THEN {IdOf[t] : t \in DOMAIN feed}
                                    ELSE {None} :
                         cmd_add_channel_2(parts[2], vOk, how, target)
                   \/ cmd_raises
              ELSE cmd_answer("add_usage")
        \/ /\ cmd = <<"/", "r", "e", "m", "o", "v", "e">>
           /\ IF Len(parts) > 1
              THEN cmd_remove_channel(parts[2]) \/ cmd_raises
              ELSE cmd_answer("remove_usage")
        \/ cmd = <<"/", "s", "t", "a", "t", "u", "s">> /\ (cmd_status \/ cmd_raises)
        \/ /\ cmd \notin {<<"/", "s", "t", "a", "r", "t">>, <<"/", "h", "e", "l", "p">>,
                          <<"/", "l", "i", "s", "t">>, <<"/", "a", "d", "d">>,
                          <<"/", "r", "e", "m", "o", "v", "e">>,
                          <<"/", "s", "t", "a", "t", "u", "s">>}
           /\ cmd_answer("unknown_command")

\* the mutant advances the watermark after the update is handled: an
\* exception raised by the handling leaves the watermark where it was
process_update_advancing_after(u) ==
    /\ last_update_id' = IF u.shape = "malformed" THEN last_update_id
                         ELSE u.update_id
    /\ IF u.shape # "message" THEN nothing_to_do
       ELSE IF ~from_recipient(u.chat) THEN nothing_to_do
       ELSE IF ~StartsWithSlash(StrippedOf[u.text]) THEN nothing_to_do
       ELSE handle_command(StrippedOf[u.text])

\* the body of the loop of process_telegram_commands for the update u
process_update(u) ==
    /\ last_update_id' = u.update_id
    /\ IF u.shape # "message" THEN nothing_to_do
       ELSE IF ~from_recipient(u.chat) THEN nothing_to_do
       ELSE IF ~StartsWithSlash(StrippedOf[u.text]) THEN nothing_to_do
       ELSE handle_command(StrippedOf[u.text])

\* process_telegram_commands: one iteration of its loop
process_telegram_commands_next ==
    /\ at = "handle"
    /\ updates # <<>>
    /\ \E u \in UpdatesWith(Head(updates)) :
          /\ update' = u
          /\ process_update(u)
    /\ updates' = Tail(updates)
    /\ UNCHANGED <<at, video_check_counter, telegram>>
    /\ LoopKeeps

\* the mutant goes on to the counter, and to the pass, with updates of the
\* batch still to handle
run_forever_count_early ==
    /\ at = "handle"
    /\ nothing_to_do
    /\ video_check_counter' = video_check_counter + 1
    /\ at' = IF video_check_counter' >= CheckEvery THEN "check" ELSE "sleep"
    /\ update' = None
    /\ UNCHANGED <<last_update_id, updates, telegram>>
    /\ LoopKeeps

\* run_forever after process_telegram_commands returned: the counter
run_forever_count ==
    /\ at = "handle"
    /\ updates = <<>>
    /\ nothing_to_do
    /\ video_check_counter' = video_check_counter + 1
    /\ at' = IF video_check_counter' >= CheckEvery THEN "check" ELSE "sleep"
    /\ update' = None
    /\ UNCHANGED <<last_update_id, updates, telegram>>
    /\ LoopKeeps

\* run_forever calls check_new_videos, and resets the counter when it returns
run_forever_check ==
    /\ at = "check"
    /\ \/ /\ check_new_videos_begin
          /\ at' = IF channels = <<>> THEN "sleep" ELSE "check"
          /\ video_check_counter' = IF channels = <<>> THEN 0
                                    ELSE video_check_counter
       \/ /\ \/ \E fOk \in BOOLEAN : check_new_videos_channel_1(fOk)
             \/ \E fOk \in BOOLEAN : check_new_videos_channel_2(fOk)
          /\ UNCHANGED <<at, video_check_counter>>
       \/ /\ check_new_videos_end \/ check_new_videos_raises
          /\ at' = "sleep"
          /\ video_check_counter' = 0
    /\ UNCHANGED <<last_update_id, updates, update, telegram>>
    /\ LoopKeeps

\* asyncio.sleep(5) at the end of an iteration, asyncio.sleep(30) after an
\* exception: the next iteration follows
run_forever_sleep ==
    /\ at \in {"sleep", "guard"}
    /\ nothing_to_do
    /\ at' = "drain"
    /\ UNCHANGED <<last_update_id, updates, update, video_check_counter, telegram>>
    /\ LoopKeeps

\* somebody sends a message to the bot, or edits one
Arrive ==
    /\ telegram < MaxUpdate
    /\ telegram' = telegram + 1
    /\ UNCHANGED <<ProgramVars, ResolverVars, at, last_update_id, updates,
                   update, video_check_counter>>

\* the state when run_forever is called
InitLoop ==
    /\ revision \in {1, 2}
    /\ InitFiles(OneChannel, "none")
    /\ feed = [c \in OneChannel |-> <<1>>]
    /\ ResolverIdle
    /\ at = "start"
    /\ last_update_id = 0
    /\ updates = <<>>
    /\ update = None
    /\ video_check_counter = 0
    /\ telegram = 0

\* the steps run_forever takes by itself
Program ==
    \/ run_forever_start
    \/ process_telegram_commands_drain
    \/ process_telegram_commands_next
    \/ run_forever_count
    \/ run_forever_check
    \/ run_forever_sleep

NextLoop ==
    \/ Program
    \/ Arrive

\* the interpreter runs the next statement of run_forever, and a sleep ends
SpecLoop == InitLoop /\ [][NextLoop]_vars /\ WF_vars(Program)

-----------------------------------------------------------------------------
(* What a step of the program is, read from the two states of the step.    *)

\* one iteration of the loop of check_new_videos
PassStep == pc = "pass" /\ idx' = idx + 1

\* the channel that iteration processes
ChannelOfStep == channels[idx].channel_id

\* the pass has processed at least one channel; the last one it processed
Processed == pc = "pass" /\ idx > 1

ChannelProcessed == channels[idx - 1].channel_id

\* the video ids of the notifications of a message list, in the order sent
VideosOf(ob) == [i \in 1..Len(ob) |-> ob[i].video]

HasKind(ob, kind) == \E i \in 1..Len(ob) : ob[i].kind = kind

\* a command appended a registration
Registered == pc = "idle" /\ Len(channels') = Len(channels) + 1

\* the first page of the feed of a registered channel
FirstPage(channel_id) == Take(feed[KeyOf(channel_id)], PageSize)

-----------------------------------------------------------------------------
(* C1                                                                      *)

-----------------------------------------------------------------------------
(* C2                                                                      *)

\* C2 as stated: after a successful /add of channel c (one that appends the
\* registration), the poll-state has an entry for c whose seen-set contains
\* every item id of the first page of c's feed at that time.
C2_AddSeedsSeenSet ==
    [][Registered =>
          LET c == channels'[Len(channels')].channel_id
          IN  /\ c \in DOMAIN data'
              /\ Range(FirstPage(c)) \subseteq Range(data'[c].last_video_ids)]_vars

-----------------------------------------------------------------------------
(* C3                                                                      *)

\* C3 as stated: the first pass that processes a channel after its successful
\* /add, the feed not having changed since the /add, sends no notification
\* for that channel.  Read with SpecAdded, where justAdded holds the channels
\* added since, whose feed has not changed and that no pass has reached.
C3_FirstPassAfterAddSilent ==
    [][PassStep /\ KeyOf(ChannelOfStep) \in justAdded => outbox' = <<>>]_vars

-----------------------------------------------------------------------------
(* C4                                                                      *)

-----------------------------------------------------------------------------
(* C5                                                                      *)

Pos(seq, v) == CHOOSE i \in 1..Len(seq) : seq[i] = v

\* C5: when a pass processes a channel that has a poll-state entry and the
\* fetch is not empty, the items it notifies are exactly the fetched items
\* whose id is not in the seen-set the pass loaded, each once, in feed order.
C5_NotifiesTheUnseenInFeedOrder ==
    [][(PassStep /\ ChannelOfStep \in DOMAIN saved_data /\ videos' # <<>>) =>
          LET sent == VideosOf(outbox')
              seen == Range(saved_data[ChannelOfStep].last_video_ids)
          IN  /\ Range(sent) = Range(videos') \ seen
              /\ \A i, j \in 1..Len(sent) :
                    i < j => Pos(videos', sent[i]) < Pos(videos', sent[j])]_vars

\* the scenario of the claim: 3, 2, 1 fetched with 2 seen; 3 then 1 notified
C5_Witness ==
    /\ Processed
    /\ videos = <<3, 2, 1>>
    /\ VideosOf(outbox) = <<3, 1>>
    /\ ChannelProcessed \in DOMAIN data
    /\ Range(data[ChannelProcessed].last_video_ids) \cap {1, 2, 3} = {2}

-----------------------------------------------------------------------------
(* C6                                                                      *)

-----------------------------------------------------------------------------
(* C7                                                                      *)

\* the text occurs in the name, letter case ignored
MatchesText(name, text) ==
    \E p \in 1..(Len(name) - Len(text) + 1) :
        Lower(SubSeq(name, p, p + Len(text) - 1)) = Lower(text)

\* C7: /remove <text> deletes exactly one registration, the first in registry
\* order whose name contains the text case-insensitively; the others stay, in
\* the same order; when no name matches, the registry is unchanged.
C7_RemoveFirstMatch ==
    [][\A t \in RemoveInputs :
          cmd_remove_channel(t) =>
              LET hits == {i \in 1..Len(channels) : MatchesText(channels[i].name, t)}
              IN  IF hits = {} THEN channels' = channels
                  ELSE \E m \in hits :
                          /\ \A i \in hits : m <= i
                          /\ Len(channels') = Len(channels) - 1
                          /\ \A j \in 1..Len(channels') :
                                channels'[j] = IF j < m THEN channels[j]
                                               ELSE channels[j + 1]]_vars

\* a removal has just left in the registry a later registration whose name
\* matches every text the removed name matches
C7_Witness ==
    /\ Len(outbox) = 1
    /\ outbox[1].kind = "removed"
    /\ Len(channels) = 2
    /\ \E i \in 1..Len(channels) : Lower(channels[i].name) = Lower(outbox[1].name)

-----------------------------------------------------------------------------
(* C8                                                                      *)

\* C8: an /add whose input resolves to an id the validator confirms and the
\* registry already holds leaves the registry and the poll-state unchanged
\* and answers with the already-monitored warning, not with the success
\* message; and no /add registers an id the registry already holds.
C8_DuplicateAddRefused ==
    [][/\ \A i \in AddInputs :
             (/\ ExtractOf[i] \in RegisteredIds(channels)
              /\ validate_channel_simple(ExtractOf[i], TRUE).valid
              /\ \/ \E fOk \in BOOLEAN : cmd_add_channel_1(i, TRUE, fOk)
                 \/ \E how \in Resolutions, target \in {IdOf[t] : t \in DOMAIN feed} :
                        cmd_add_channel_2(i, TRUE, how, target))
               => /\ UNCHANGED <<channels, data>>
                  /\ outbox'[Len(outbox')].kind = "already_monitored"
                  /\ ~HasKind(outbox', "added")
       /\ Registered =>
             channels'[Len(channels')].channel_id \notin RegisteredIds(channels)]_vars

\* an /add has just been answered with the warning
C8_Witness ==
    /\ pc = "idle"
    /\ channels # <<>>
    /\ HasKind(outbox, "already_monitored")
    /\ ~HasKind(outbox, "added")

-----------------------------------------------------------------------------
(* C9                                                                      *)

\* C9: when the fetch of a channel fails during a pass, the fetch yields the
\* empty list, the pass sends no notification for the channel and leaves its
\* poll-state alone, and the entry persisted at the end of the pass is the one
\* persisted before the pass.  Read with SpecFetched, where fetched[c] = <<>>
\* at the end of a pass tells that the pass fetched nothing for c.
C9_FailedFetchChangesNothing ==
    [][/\ (check_new_videos_channel_1(FALSE) \/ check_new_videos_channel_2(FALSE))
             => /\ videos' = <<>>
                /\ outbox' = <<>>
                /\ saved_data' = saved_data
       /\ (pc = "pass" /\ pc' = "idle") =>
             \A i \in 1..Len(channels) :
                 LET c == channels[i].channel_id
                 IN  fetched[KeyOf(c)] = <<>> =>
                         /\ c \in DOMAIN data' <=> c \in DOMAIN data
                         /\ c \in DOMAIN data => data'[c] = data[c]]_vars

\* a pass has just failed to fetch a channel whose feed is not empty: nothing
\* sent, and the entry the pass carries is the persisted one, ids included
C9_Witness ==
    /\ track = "fetched"
    /\ Processed
    /\ videos = <<>>
    /\ outbox = <<>>
    /\ FirstPage(ChannelProcessed) # <<>>
    /\ ChannelProcessed \in DOMAIN data
    /\ data[ChannelProcessed].last_video_ids # <<>>
    /\ saved_data[ChannelProcessed] = data[ChannelProcessed]

-----------------------------------------------------------------------------
(* C10                                                                     *)

\* C10 as stated: with the registry and the poll-state empty, /add of the URL
\* .../channel/<c>, c a canonical id whose feed has 3 entries and every
\* request succeeding, leaves exactly one registration, for c, a poll-state
\* entry for c with 3 seen ids, and sends the success message with c in it.
C10_AddByChannelUrl ==
    [][(/\ channels = <<>>
        /\ data = <<>>
        /\ Len(feed["1"]) = 3
        /\ cmd_add_channel_1(ChannelUrl(CanonicalId("1")), TRUE, TRUE))
          => /\ Len(channels') = 1
             /\ channels'[1].channel_id = CanonicalId("1")
             /\ CanonicalId("1") \in DOMAIN data'
             /\ Len(data'[CanonicalId("1")].last_video_ids) = 3
             /\ \E k \in 1..Len(outbox') :
                   outbox'[k].kind = "added" /\ outbox'[k].id = CanonicalId("1")]_vars

-----------------------------------------------------------------------------
(* C11                                                                     *)

\* UC followed by 22 characters of [a-zA-Z0-9_-]
CanonicalShape(s) ==
    /\ Len(s) = 24
    /\ SubSeq(s, 1, 2) = <<"U", "C">>
    /\ \A i \in 3..24 : s[i] \in IdChars

\* C11: for every input that, whitespace trimmed, has the canonical shape,
\* extract_channel_id_simple returns the trimmed input unchanged and makes no
\* network request.
C11_CanonicalReturnedUnchanged ==
    [][(Extract /\ CanonicalShape(Strip(given))) =>
          (resolved' = Strip(given) /\ requests' = <<>>)]_vars

\* a canonical id given with whitespace around it has come back trimmed
C11_Witness ==
    /\ resolved # NotYet
    /\ CanonicalShape(resolved)
    /\ given # resolved
    /\ Strip(given) = resolved
    /\ requests = <<>>

-----------------------------------------------------------------------------
(* C12                                                                     *)

\* the input is a direct-channel URL that carries the canonical id
IsChannelUrlOf(s, channel_id) ==
    /\ CanonicalShape(channel_id)
    /\ \E p \in 0..(Len(s) - Len(ChannelUrlLiteral) - 24) :
          SubSeq(s, p + 1, p + Len(ChannelUrlLiteral) + 24) =
              ChannelUrlLiteral \o channel_id

\* C12 as stated: for an input that is a direct-channel URL containing a
\* canonical id, extract_channel_id_simple returns an id of canonical shape
\* (24 characters) that is the id in the URL.
C12_UrlGivesTheCanonicalId ==
    [][\A c \in {CanonicalId("1"), VariedId} :
          (Extract /\ IsChannelUrlOf(given, c)) =>
              (CanonicalShape(resolved') /\ resolved' = c)]_vars

-----------------------------------------------------------------------------
(* C13                                                                     *)

\* no method of the resolver finds an id in the text: it has neither the
\* canonical shape nor a /channel/ path, and the network finds nothing
NothingFound(s) ==
    /\ s # <<>>
    /\ ~CanonicalShape(s)
    /\ ~Contains(s, ChannelPathLiteral)

\* C13 as stated: when no resolution method yields an id for an input, the
\* resolver (extract_channel_id_simple; handle_to_channel_id with every
\* request failing) returns the original token verbatim, not an empty or
\* null result.
C13_UnresolvedReturnedVerbatim ==
    [][(/\ NothingFound(Strip(given))
        /\ resolved = NotYet
        /\ resolved' # NotYet
        /\ \A i \in 1..Len(requests') : ~requests'[i].found)
          => (resolved' # None /\ resolved' \in {given, Strip(given)})]_vars

-----------------------------------------------------------------------------
(* C14                                                                     *)

\* C14 as stated: an /add whose input is a handle URL is never rejected at
\* the pattern-matching stage alone (the answers "invalid format" of lines
\* 274-292 and "cannot extract" of lines 858-860, sent before any handle
\* resolution): it reaches handle_to_channel_id first.
C14_HandleUrlReachesResolution ==
    [][(\/ \E vOk, fOk \in BOOLEAN : cmd_add_channel_1(HandleUrl, vOk, fOk)
        \/ \E vOk \in BOOLEAN, how \in Resolutions,
              target \in {IdOf[t] : t \in DOMAIN feed} :
                 cmd_add_channel_2(HandleUrl, vOk, how, target))
          => (/\ ~HasKind(outbox', "invalid_format")
              /\ ~HasKind(outbox', "cannot_extract"))]_vars

-----------------------------------------------------------------------------
(* C19                                                                     *)

\* C19: in every reachable state, whatever /add and /remove commands and
\* passes came before, no two registrations of the registry have the same
\* channel id.
C19_RegistryIdsUnique ==
    \A i, j \in 1..Len(channels) :
        i # j => channels[i].channel_id # channels[j].channel_id

\* two channels are registered and an /add of one of them has been refused
C19_Witness ==
    /\ Len(channels) = 2
    /\ Len(outbox) >= 2
    /\ outbox[Len(outbox)].kind = "already_monitored"
    /\ \E i \in 1..2 : channels[i].name = outbox[Len(outbox)].name

-----------------------------------------------------------------------------
(* C20                                                                     *)

\* check_new_videos returns in this step
PassReturns ==
    \/ pc = "pass" /\ pc' = "idle"
    \/ pc = "idle" /\ channels = <<>> /\ check_new_videos_begin

\* between check_new_videos_begin and the end of the pass the poll-state
\* document is neither written nor changed
NoWriteInsidePass == (pc' = "pass") => (saves' = 0 /\ data' = data)

\* C20 as stated: the poll-state document is written exactly once per
\* reconciliation pass, at the end of the pass, with no write between two
\* channels.  Read with SpecSaves, where `saves` counts the save_data calls
\* of the latest check_new_videos.
C20_WrittenOncePerPass ==
    [][NoWriteInsidePass /\ (PassReturns => saves' = 1)]_vars

\* C20, amended: the poll-state document is written at most once per pass and
\* never between two channels; a pass over a non-empty registry writes it
\* exactly once, by its last step, and until then the persisted document is
\* the one from before the pass; check_new_videos on an empty registry
\* returns without writing.
C20_WrittenOnlyAtEndOfPass ==
    [][/\ NoWriteInsidePass
       /\ (pc = "pass" /\ pc' = "idle") =>
             (saves = 0 /\ saves' = 1 /\ data' = saved_data)
       /\ (pc = "idle" /\ channels = <<>> /\ check_new_videos_begin) =>
             (saves' = 0 /\ data' = data)]_vars

\* between the two channels of a pass: the first has been notified and the
\* pass's copy of the poll-state updated, the document not written
C20_Witness ==
    /\ track = "saves"
    /\ pc = "pass"
    /\ Len(channels) = 2
    /\ idx = 2
    /\ outbox # <<>>
    /\ saved_data # data
    /\ saves = 0

-----------------------------------------------------------------------------
(* The steps of the control loop, read from the two states of the step.    *)

\* process_telegram_commands handles the first update of the batch
HandlesUpdate == at = "handle" /\ updates # <<>> /\ updates' = Tail(updates)

\* the update handled by the step is a message of the chat `c`
MessageFrom(c) == update'.shape = "message" /\ update'.chat = c

\* the update handled by the step is a command of the configured recipient
CommandOfRecipient ==
    /\ MessageFrom(chat_id)
    /\ StartsWithSlash(Strip(update'.text))

-----------------------------------------------------------------------------
(* C15: an update sent from a chat other than the configured recipient is  *)
(* ignored: handling it sends no message and changes neither the registry  *)
(* nor the poll-state.                                                     *)

C15_OtherChatIgnored ==
    [][(HandlesUpdate /\ \E c \in Chats \ {chat_id} : MessageFrom(c)) =>
          (outbox' = <<>> /\ channels' = channels /\ data' = data)]_vars

\* an /add of a valid channel id sent from another chat has been handled,
\* and the registry is still empty
C15_Witness ==
    /\ at = "handle"
    /\ update # None
    /\ update.shape = "message"
    /\ update.chat = "other"
    /\ StrippedOf[update.text] = <<"/", "a", "d", "d", " ">> \o CanonicalId("1")
    /\ last_update_id = update.update_id
    /\ channels = <<>>
    /\ outbox = <<>>

-----------------------------------------------------------------------------
(* C16: no update is handled twice.  Every update of a drained batch, one  *)
(* that is ignored or whose handling fails included, has an id above the   *)
(* watermark and moves the watermark to its id, and a drain returns only   *)
(* updates whose id is above the watermark.                                *)

C16_WatermarkAdvances ==
    [][/\ HandlesUpdate =>
             /\ Head(updates) > last_update_id
             /\ last_update_id' = Head(updates)
             /\ update'.update_id = Head(updates)
       /\ (at = "drain" /\ at' = "handle") =>
             \A i \in 1..Len(updates') : updates'[i] > last_update_id]_vars

\* update 2 raised while its message was read: the watermark stands at it
\* all the same, and update 3 is the next to handle
C16_Witness ==
    /\ at = "handle"
    /\ update # None
    /\ update.shape = "malformed"
    /\ update.update_id = 2
    /\ last_update_id = 2
    /\ updates = <<3>>

-----------------------------------------------------------------------------
(* C18: every update of the configured recipient whose text starts with    *)
(* "/" is answered: the step that handles it hands at least one message to *)
(* sendMessage, whether the command is recognised, lacks its argument, is  *)
(* unknown, is a rejected /add, a /remove that finds nothing, or raises.   *)

C18_CommandAnswered ==
    [][(HandlesUpdate /\ CommandOfRecipient) => outbox' # <<>>]_vars

\* an unknown command of the recipient has been handled and answered
C18_Witness ==
    /\ at = "handle"
    /\ update # None
    /\ update.shape = "message"
    /\ update.chat = chat_id
    /\ update.text = <<"/", "x">>
    /\ last_update_id = update.update_id
    /\ outbox = <<Msg("unknown_command")>>

-----------------------------------------------------------------------------
(* C17: no failure ends the control loop.  Whatever the drain, the         *)
(* commands and the pass meet (a request that fails, a result that cannot  *)
(* be iterated, an update that cannot be read, a feed that cannot be       *)
(* fetched, a file that cannot be read or written), run_forever always     *)
(* comes to the top of a further iteration.                                *)

C17_LoopGoesOn == []<>(at = "drain")

\* an exception has left process_telegram_commands and reached the guard of
\* run_forever, in an iteration after one that registered a channel
C17_Witness ==
    /\ at = "guard"
    /\ last_update_id > 0
    /\ video_check_counter = 1
    /\ channels # <<>>

-----------------------------------------------------------------------------
(* C21: delivery is at least once.  An id that a pass classified as new    *)
(* and that stands in the persisted seen-set of its channel has been       *)
(* delivered: sendMessage returned success for it in some pass.            *)

C21_SeenOnlyIfDelivered ==
    \A c \in DOMAIN feed :
        IdOf[c] \in DOMAIN data =>
            \A v \in Range(data[IdOf[c]].last_video_ids) :
                v \in delivered[c].new => v \in delivered[c].sent

-----------------------------------------------------------------------------
(* C22: the two documents are referentially consistent.  Whenever no pass  *)
(* is under way, that is after every command and every pass, each enabled  *)
(* registration of the registry has an entry in the poll-state document.   *)

C22_EveryRegistrationHasEntry ==
    pc = "idle" =>
        \A i \in 1..Len(channels) :
            channels[i].enabled => channels[i].channel_id \in DOMAIN data

-----------------------------------------------------------------------------
(* C23: the control loop runs a pass exactly on every N-th iteration that  *)
(* is not cut short by an exception.  An iteration drains the commands,    *)
(* then adds one to the counter, and runs the pass exactly when the        *)
(* counter has reached N; the counter is reset to 0 when the pass returns, *)
(* and at every sleep point it is in 0..N-1.                               *)

\* the steps of run_forever with the threshold n
PassEvery(n) ==
    /\ (at = "handle" /\ at' # "handle") =>
          /\ updates = <<>>
          /\ video_check_counter' = video_check_counter + 1
          /\ at' = IF video_check_counter' = n THEN "check" ELSE "sleep"
    /\ pc' = "pass" => (at' = "check" /\ video_check_counter' = n)
    /\ (at = "check" /\ at' # "check") =>
          (at' = "sleep" /\ video_check_counter' = 0)
    /\ at' = "sleep" => video_check_counter' \in 0..(n - 1)

\* as claimed: N is 12
C23_PassEveryTwelfthIteration == [][PassEvery(CheckEvery1)]_vars

\* N is 12 in the run_forever of lines 530-555 and 60 in that of lines
\* 1077-1102
C23_PassEveryNthIteration ==
    [][PassEvery(IF revision = 1 THEN CheckEvery1 ELSE CheckEvery2)]_vars

\* the run_forever of lines 1077-1102 runs its first pass, in its 60th
\* iteration, over a registered channel
C23_Witness ==
    /\ revision = 2
    /\ at = "check"
    /\ pc = "pass"
    /\ video_check_counter = CheckEvery2
    /\ last_update_id > 0

-----------------------------------------------------------------------------
(* C24: a pass that fails with an exception is run again in the very next  *)
(* iteration: when check_new_videos has raised, the counter is left so     *)
(* that the increment of the next iteration reaches the threshold.         *)

C24_FailedPassRunAgainNextIteration ==
    [][(at = "check" /\ check_new_videos_raises) =>
          video_check_counter' + 1 >= CheckEvery]_vars

-----------------------------------------------------------------------------
(* C25: the registry changes only by a successful /add, which appends one  *)
(* enabled registration at its end, and by a successful /remove, which     *)
(* deletes one registration; the pass and the commands that only answer    *)
(* leave it as it is, and the registrations that stay keep their ids.      *)

\* the step appended one enabled registration and answered that it is added
AppendsOne ==
    /\ pc = "idle"
    /\ Len(channels') = Len(channels) + 1
    /\ SubSeq(channels', 1, Len(channels)) = channels
    /\ channels'[Len(channels')].enabled
    /\ HasKind(outbox', "added")

\* the step deleted one registration and answered that it is removed
DeletesOne ==
    /\ pc = "idle"
    /\ \E i \in 1..Len(channels) :
          /\ Len(channels') = Len(channels) - 1
          /\ \A k \in 1..Len(channels') :
                channels'[k] = IF k < i THEN channels[k] ELSE channels[k + 1]
    /\ HasKind(outbox', "removed")

C25_RegistryChangesOnlyByAddAndRemove ==
    [][/\ (channels' # channels) => (AppendsOne \/ DeletesOne)
       /\ (pc = "pass" \/ pc' = "pass") => channels' = channels
       /\ (\E k \in {"start", "list", "list_empty", "status", "add_usage",
                      "remove_usage", "unknown_command"} : HasKind(outbox', k))
             => channels' = channels]_vars

\* the three channels were added and channel 2 has been removed
C25_Witness ==
    /\ Len(channels) = 2
    /\ HasKind(outbox, "removed")
    /\ channels[1].channel_id = IdOf["1"]
    /\ channels[2].channel_id = IdOf["3"]

-----------------------------------------------------------------------------
(* C26: the persisted seen-set of a channel holds at most 5 ids and, once  *)
(* it is not empty, is the id list of the latest non-empty fetch made for  *)
(* the channel by /add or by a pass.                                       *)

\* the persisted seen-set of each channel is bounded and is the latest fetch
SeenIsLatestFetch ==
    \A c \in DOMAIN feed :
        IdOf[c] \in DOMAIN data =>
            LET ids == data[IdOf[c]].last_video_ids
            IN  /\ Len(ids) <= PageSize
                /\ ids # <<>> => ids = fetched[c]

-----------------------------------------------------------------------------
(* C27: an /add that fails at resolution (the input has no recognised      *)
(* format) or at validation (the request fails, or the feed has no entry)  *)
(* leaves the registry and the poll-state as they are and ends with a      *)
(* rejection message.                                                      *)

\* the validator's request for channel_id fails, or finds no entry
NoUsableFeed(channel_id, vOk) ==
    \/ ~vOk
    \/ KeyOf(channel_id) = NoChannel
    \/ feed[KeyOf(channel_id)] = <<>>

\* the messages with which /add rejects
Rejections == {"invalid_format", "invalid_channel", "cannot_extract",
               "channel_not_found"}

\* the step sent messages, a rejection last
EndsRejected ==
    /\ outbox' # <<>>
    /\ outbox'[Len(outbox')].kind \in Rejections
    /\ ~HasKind(outbox', "added")

\* the step is an /add of input i that fails at resolution or at validation
FailingAdd(i, vOk) ==
    \/ /\ ExtractOf[i] = None \/ NoUsableFeed(ExtractOf[i], vOk)
       /\ \E fOk \in BOOLEAN : cmd_add_channel_1(i, vOk, fOk)
    \/ /\ ExtractOf[i] = None \/ ~vOk
       /\ \E how \in IF MentionsYoutube[i] THEN Resolutions ELSE {"none"} :
          \E target \in IF MentionsYoutube[i]
                         THEN {IdOf[t] : t \in DOMAIN feed} ELSE {None} :
              cmd_add_channel_2(i, vOk, how, target)

C27_FailedAddChangesNothing ==
    [][\/ EndsRejected /\ UNCHANGED <<channels, data>>
       \/ \A i \in AddInputs, vOk \in BOOLEAN : ~FailingAdd(i, vOk)]_vars

\* with a channel registered, an /add of another id was rejected by the
\* validator
C27_Witness ==
    /\ revision = 1
    /\ pc = "idle"
    /\ Len(channels) = 1
    /\ outbox # <<>>
    /\ outbox[Len(outbox)].kind = "invalid_channel"
    /\ outbox[Len(outbox)].id \notin RegisteredIds(channels)

-----------------------------------------------------------------------------
(* C28: an item that was in the seen-set of a channel, was absent from a   *)
(* successful non-empty fetch of the channel and is present in a later     *)
(* fetch is notified again by the pass that sees it return.                *)

-----------------------------------------------------------------------------
(* C29: command handling and the pass never interleave.  A command is      *)
(* handled only while no pass is under way; a pass starts only when every  *)
(* update of the drained batch has been handled, and has returned before   *)
(* the next drain; so between the pass's load of the poll-state and its    *)
(* write nothing else writes the poll-state or the registry.               *)

C29_CommandsAndPassNeverInterleave ==
    [][/\ HandlesUpdate => (pc = "idle" /\ pc' = "idle")
       /\ (pc = "idle" /\ pc' = "pass") =>
             (at = "check" /\ updates = <<>> /\ saved_data' = data)
       /\ pc = "pass" =>
             /\ at = "check"
             /\ updates' = updates
             /\ last_update_id' = last_update_id
             /\ channels' = channels
             /\ pc' = "pass" => data' = data
       /\ at' = "drain" => pc' = "idle"]_vars

\* a pass is under way over a registered channel while an update that
\* arrived after the drain waits at the transport
C29_Witness ==
    /\ at = "check"
    /\ pc = "pass"
    /\ idx > 1
    /\ telegram > last_update_id
    /\ last_update_id > 0

-----------------------------------------------------------------------------
(* C30: /add persists the seed before the registration.  When /add writes  *)
(* a registration into the registry after a seed fetch that was not empty, *)
(* the persisted poll-state already holds the seed of that channel; so it  *)
(* does in the state between the two writes, where the add may stop.       *)

C30_SeedPersistedBeforeRegistration ==
    [][/\ (Len(channels') = Len(channels) + 1 /\ videos' # <<>>) =>
             LET c == channels'[Len(channels')].channel_id
             IN  /\ c \in DOMAIN data
                 /\ data[c].last_video_ids = videos'
       /\ (pc' = "add" /\ videos' # <<>>) =>
             /\ adding'.channel_id \in DOMAIN data'
             /\ data'[adding'.channel_id].last_video_ids = videos'
             /\ adding'.channel_id \notin RegisteredIds(channels')]_vars

\* between the two writes of an /add, where it may stop: the seed of the
\* channel is persisted and the channel is not yet registered
C30_Witness ==
    /\ revision = 1
    /\ pc = "add"
    /\ channels = <<>>
    /\ Len(videos) > 1
    /\ adding.channel_id = IdOf["1"]
    /\ IdOf["1"] \in DOMAIN data
    /\ data[IdOf["1"]].last_video_ids = videos

-----------------------------------------------------------------------------
\* the pass processes an enabled registration that has no poll-state entry
\* and the fetch of its feed returns items
MeetsUnseededChannel ==
    /\ PassStep
    /\ channels[idx].enabled
    /\ ChannelOfStep \notin DOMAIN saved_data
    /\ videos' # <<>>

\* C31: when a pass meets an enabled registration without poll-state entry
\* and the fetch is non-empty, it creates the entry with the fetched ids as
\* seen-set and sends no notification for that channel (lines 483-491 do so;
\* lines 1042-1059 start the entry empty and notify every fetched item)
C31_UnseededChannelSeededSilently ==
    [][MeetsUnseededChannel =>
          /\ ChannelOfStep \in DOMAIN saved_data'
          /\ saved_data'[ChannelOfStep].last_video_ids = videos'
          /\ outbox' = <<>>]_vars

-----------------------------------------------------------------------------
\* a /remove that deletes a registration
Removes == pc = "idle" /\ Len(channels') = Len(channels) - 1

\* the channels that have a poll-state entry and no registration
Unregistered == DOMAIN data \ RegisteredIds(channels)

\* the entry of the channel is the seed of an /add that registers it
SeededByAdd(channel_id) ==
    /\ Registered
    /\ channels'[Len(channels')].channel_id = channel_id
    /\ videos' # <<>>
    /\ data'[channel_id].last_video_ids = videos'

\* the answer of /status counts the items of every poll-state entry
StatusCounts(d) ==
    /\ Len(outbox) = 1
    /\ outbox[1].kind = "status"
    /\ outbox[1].counts[2] = Len(channels)
    /\ outbox[1].counts[3] = SumLen(d, DOMAIN d)

\* C32: /remove changes only the registry and leaves the poll-state
\* unchanged; the entry of a channel without registration stays in the
\* poll-state, unchanged, under every operation but an /add of that channel
\* that overwrites it with the ids of its seed fetch, and as long as it
\* stays /status counts its items in the tracked-item total
C32_RemoveKeepsPollState ==
    [][/\ Removes => data' = data /\ saved_data' = saved_data
       /\ \A channel_id \in Unregistered :
             /\ channel_id \in DOMAIN data'
             /\ \/ data'[channel_id] = data[channel_id]
                \/ SeededByAdd(channel_id)
       /\ (HasKind(outbox', "status") /\ pc = "idle") =>
             /\ outbox'[1].counts[3] >= SumLen(data, Unregistered)
             /\ outbox'[1].counts[3] = SumLen(data, DOMAIN data)]_vars

\* C32 witness: the registry is empty, the poll-state still holds the
\* seen-set of a removed channel, and /status has just answered with no
\* channel and that seen-set in its total
C32_Witness ==
    /\ pc = "idle"
    /\ channels = <<>>
    /\ Unregistered # {}
    /\ StatusCounts(data)
    /\ outbox[1].counts[3] > 0

-----------------------------------------------------------------------------
\* the handling of an update raises: a message without chat raises in the
\* loop body (caught at line 182), a command raises in handle_command
Raises ==
    /\ HandlesUpdate
    /\ \/ update'.shape = "malformed"
       \/ HasKind(outbox', "internal_error")

\* C33: a command is executed at most once within a run: the watermark is
\* set to the sequence number of an update before the update is handled and
\* never decreases, every update handled lies above the watermark, an update
\* whose handling raises is consumed all the same, and the updates of the
\* batch that follow it are still handled
C33_RaisingUpdateConsumed ==
    /\ [][/\ last_update_id' >= last_update_id
          /\ HandlesUpdate => update'.update_id > last_update_id
          /\ Raises => /\ last_update_id' = update'.update_id
                       /\ updates' = Tail(updates)
                       /\ at' = "handle"]_vars
    /\ \A n \in 1..MaxUpdate :
          (at = "handle" /\ n \in Range(updates))
             ~> (update # None /\ update.update_id = n /\ last_update_id = n)

\* C33 witness: the first update of a batch of three raised, the watermark
\* is at its sequence number and the two other updates are still to handle
C33_Witness ==
    /\ at = "handle"
    /\ update # None
    /\ update.shape = "malformed"
    /\ update.update_id = 1
    /\ last_update_id = 1
    /\ updates = <<2, 3>>

====
